---------------------------- MODULE Spec2Model ----------------------------
(***************************************************************************)
(* A model of the Swift Package Manager backend (src/backend/spm.rs):      *)
(* the repository identifier resolver (SwiftPackageRepo::from_str), the    *)
(* remote version cache (_list_remote_versions) and the install pipeline   *)
(* (install_version_impl and its helpers).                                 *)
(*                                                                         *)
(* Strings are sequences of one-character strings, so that parsing,        *)
(* matching, replacing and concatenating are computed character by         *)
(* character, as the code does.                                            *)
(***************************************************************************)
EXTENDS Integers, Sequences, FiniteSets, TLC

VARIABLES
    rIn,          \* SpecResolve: the identifier handed to from_str;
                  \* SpecWorkspace: the url and revision of clone_package_repo
    rOut,         \* SpecResolve: the Result of from_str, or NotRun;
                  \* SpecWorkspace: the directory removed and cloned into
    experimental, \* Settings: whether experimental features are enabled
    serial,       \* whether the caller runs the install attempts one after another
    name,         \* per attempt: self.name(), the package identifier
    requested,    \* per attempt: ctx.tv.version
    pc,           \* per attempt: the next step of install_version_impl
    repo_url,     \* per attempt: the local repo_url
    version,      \* per attempt: the local version
    repo_dir,     \* per attempt: the local repo_dir
    manifest,     \* per attempt: the PackageDescription products decoded
    executables,  \* per attempt: the local executables
    idx,          \* per attempt: the position of the for loop in executables
    bin_path,     \* per attempt: the local bin_path of the loop body
    err,          \* per attempt: the error install_version_impl returned
    trace,        \* per attempt: the calls made to the outside, in order
    dest,         \* per attempt: the paths under ctx.tv.install_path()/bin
    ws,           \* the file system under temp_dir()/spm: directory -> content
    spmRoot,      \* whether temp_dir()/spm exists
    cache,        \* remote_version_cache, per package identifier
    listCalls,    \* the _list_remote_versions requests made, per identifier
    fetches,      \* the github::list_releases calls made, per identifier
    lastFetched,  \* the releases github::list_releases last returned, per identifier
    firstList,    \* the first list _list_remote_versions returned, per identifier
    lastList      \* the last Result _list_remote_versions returned, per identifier

attemptVars == <<pc, repo_url, version, repo_dir, manifest, executables, idx,
                 bin_path, err, trace, dest>>
cacheVars   == <<cache, listCalls, fetches, lastFetched, firstList, lastList>>
inputVars   == <<experimental, serial, name, requested>>
resolveVars == <<rIn, rOut>>

vars == <<resolveVars, inputVars, attemptVars, ws, spmRoot, cacheVars>>

-----------------------------------------------------------------------------
(* Bounds *)

\* The longest identifier of SpecResolve, in tokens of IdTokens.
MaxTokens == 4

\* The most _list_remote_versions requests a caller makes for one identifier,
\* besides those the install attempts make.
MaxListCalls == 2

\* The longest version string of SpecWorkspace, in tokens of VersionTokens.
MaxVersionTokens == 4

-----------------------------------------------------------------------------
(* Characters and strings *)

Lower == {"a","b","c","d","e","f","g","h","i","j","k","l","m",
          "n","o","p","q","r","s","t","u","v","w","x","y","z"}
Upper == {"A","B","C","D","E","F","G","H","I","J","K","L","M",
          "N","O","P","Q","R","S","T","U","V","W","X","Y","Z"}
Digit == {"0","1","2","3","4","5","6","7","8","9"}

RECURSIVE Flatten(_)
Flatten(ss) == IF ss = <<>> THEN <<>> ELSE Head(ss) \o Flatten(Tail(ss))

StartsWith(s, p) == Len(s) >= Len(p) /\ SubSeq(s, 1, Len(p)) = p

\* str::ends_with
EndsWith(s, p) == Len(s) >= Len(p) /\ SubSeq(s, Len(s) - Len(p) + 1, Len(s)) = p

Drop(s, n) == SubSeq(s, n + 1, Len(s))

\* The first position of s holding a character of C, or Len(s) + 1.
FirstOf(s, C) ==
    LET I == {i \in 1..Len(s) : s[i] \in C}
    IN  IF I = {} THEN Len(s) + 1 ELSE CHOOSE i \in I : \A j \in I : i <= j

\* The last position of s holding a character of C, or 0.
LastOf(s, C) ==
    LET I == {i \in 1..Len(s) : s[i] \in C}
    IN  IF I = {} THEN 0 ELSE CHOOSE i \in I : \A j \in I : j <= i

\* str::replace(pat, rep): every non-overlapping match, left to right.
RECURSIVE Replace(_, _, _)
Replace(s, pat, rep) ==
    IF s = <<>> THEN <<>>
    ELSE IF StartsWith(s, pat) THEN rep \o Replace(Drop(s, Len(pat)), pat, rep)
    ELSE <<Head(s)>> \o Replace(Tail(s), pat, rep)

sHttps     == <<"h","t","t","p","s">>
sGithubCom == <<"g","i","t","h","u","b",".","c","o","m">>
sDotGit    == <<".","g","i","t">>
sGithubUrl == <<"h","t","t","p","s",":","/","/","g","i","t","h","u","b",".","c","o","m","/">>

-----------------------------------------------------------------------------
(* url::Url::parse, as SwiftPackageRepo::from_str uses it: whether the     *)
(* string parses, and the host_str() and path() of the result.  The parser *)
(* is the url crate's (the WHATWG URL parser without a base URL).          *)

NoHost == <<"<none>">>

ParseError == [ok |-> FALSE, scheme |-> <<>>, host |-> NoHost, path |-> <<>>]

\* Input::new: leading and trailing C0 controls and spaces are trimmed.
RECURSIVE TrimStart(_)
TrimStart(s) == IF s # <<>> /\ Head(s) = " " THEN TrimStart(Tail(s)) ELSE s

RECURSIVE TrimEnd(_)
TrimEnd(s) ==
    IF s # <<>> /\ s[Len(s)] = " " THEN TrimEnd(SubSeq(s, 1, Len(s) - 1)) ELSE s

Trim(s) == TrimEnd(TrimStart(s))

SchemeChar == Lower \cup Upper \cup Digit \cup {"+", "-", "."}

\* Parser::parse_scheme: the position of the ':' that ends a scheme, else 0.
SchemeEnd(s) ==
    LET k == FirstOf(s, {c \in {s[i] : i \in 1..Len(s)} : c \notin SchemeChar})
    IN  IF s # <<>> /\ Head(s) \in Lower \cup Upper /\ k <= Len(s) /\ s[k] = ":"
        THEN k ELSE 0

\* SchemeType::from: the schemes whose authority is parsed as a domain.  The
\* file scheme has a parser state of its own, which no identifier of
\* IdTokens or PackageNames reaches.
SpecialSchemes == { <<"h","t","t","p">>, sHttps, <<"w","s">>, <<"w","s","s">>,
                    <<"f","t","p">> }

\* Host::parse and Host::parse_opaque: the code points no host may hold.
ForbiddenHostChar == {" ", "#", "%", "/", ":", "<", ">", "?", "@", "[", "\\", "]", "^", "|"}

RECURSIVE SkipSlashes(_)
SkipSlashes(s) ==
    IF s # <<>> /\ Head(s) \in {"/", "\\"} THEN SkipSlashes(Tail(s)) ELSE s

\* Parser::parse_path, for the characters a path can hold here: it ends at
\* the query or the fragment, and a space is percent-encoded.  An empty path
\* of a URL with an authority of a special scheme is "/".
RECURSIVE PercentEncodePath(_)
PercentEncodePath(s) ==
    IF s = <<>> THEN <<>>
    ELSE (IF Head(s) = " " THEN <<"%","2","0">> ELSE <<Head(s)>>)
         \o PercentEncodePath(Tail(s))

PathOf(rest, special) ==
    LET raw == SubSeq(rest, 1, FirstOf(rest, {"?", "#"}) - 1)
        p   == IF special
               THEN [i \in 1..Len(raw) |-> IF raw[i] = "\\" THEN "/" ELSE raw[i]]
               ELSE raw
    IN  IF p = <<>> /\ special THEN <<"/">> ELSE PercentEncodePath(p)

\* The path of a URL that cannot be a base ("scheme:rest"): kept as written.
OpaquePathOf(rest) == SubSeq(rest, 1, FirstOf(rest, {"?", "#"}) - 1)

\* Parser::after_double_slash: userinfo, host and port, then the path.
AfterDoubleSlash(scheme, input, special) ==
    LET aEnd  == FirstOf(input, IF special THEN {"/", "?", "#", "\\"}
                                           ELSE {"/", "?", "#"})
        auth  == SubSeq(input, 1, aEnd - 1)
        rest  == Drop(input, aEnd - 1)
        at    == LastOf(auth, {"@"})
        hp    == Drop(auth, at)
        hEnd  == FirstOf(hp, {":"})
        host  == SubSeq(hp, 1, hEnd - 1)
        port  == Drop(hp, hEnd)
    IN  IF host = <<>> /\ (special \/ at > 0 \/ hEnd <= Len(hp)) THEN ParseError
        ELSE IF \E i \in 1..Len(host) : host[i] \in ForbiddenHostChar THEN ParseError
        ELSE IF \E i \in 1..Len(port) : port[i] \notin Digit THEN ParseError
        ELSE [ok |-> TRUE, scheme |-> scheme,
              host |-> IF host = <<>> THEN NoHost ELSE host,
              path |-> PathOf(rest, special)]

\* Url::parse(s)
UrlParse(s) ==
    LET t      == Trim(s)
        k      == SchemeEnd(t)
        scheme == SubSeq(t, 1, k - 1)
        after  == Drop(t, k)
    IN  IF k = 0 THEN ParseError          \* RelativeUrlWithoutBase
        ELSE IF scheme \in SpecialSchemes
             THEN AfterDoubleSlash(scheme, SkipSlashes(after), TRUE)
        ELSE IF StartsWith(after, <<"/", "/">>)
             THEN AfterDoubleSlash(scheme, Drop(after, 2), FALSE)
        ELSE [ok |-> TRUE, scheme |-> scheme, host |-> NoHost,
              path |-> IF StartsWith(after, <<"/">>) THEN PathOf(after, FALSE)
                       ELSE OpaquePathOf(after)]

-----------------------------------------------------------------------------
(* regex!(r"^[a-zA-Z0-9_-]+/[a-zA-Z0-9_-]+$").is_match(s), as the automaton *)
(* of the pattern: 0 at the start, 1 in the first class run, 2 after the    *)
(* '/', 3 in the second class run (accepting), 4 dead.                      *)

WordChar == Lower \cup Upper \cup Digit \cup {"_", "-"}

ShorthandStep(q, c) ==
    CASE q = 0 -> IF c \in WordChar THEN 1 ELSE 4
      [] q = 1 -> IF c \in WordChar THEN 1 ELSE IF c = "/" THEN 2 ELSE 4
      [] q = 2 -> IF c \in WordChar THEN 3 ELSE 4
      [] q = 3 -> IF c \in WordChar THEN 3 ELSE 4
      [] OTHER -> 4

RECURSIVE ShorthandRun(_, _)
ShorthandRun(q, s) ==
    IF s = <<>> THEN q ELSE ShorthandRun(ShorthandStep(q, Head(s)), Tail(s))

IsShorthand(s) == ShorthandRun(0, s) = 3

-----------------------------------------------------------------------------
(* SwiftPackageRepo::from_str *)

\* IsGithubGitUrl with the host compared by its ending.
IsGithubGitUrlHostSuffix(s) ==
    LET url == UrlParse(s)
    IN  url.ok /\ EndsWith(url.host, sGithubCom) /\ EndsWith(url.path, sDotGit)

IsGithubGitUrl(s) ==
    LET url == UrlParse(s)
    IN  url.ok /\ url.host = sGithubCom /\ EndsWith(url.path, sDotGit)

from_str(s) ==
    IF IsGithubGitUrl(s)
    THEN [ok |-> TRUE, url |-> s]
    ELSE IF IsShorthand(s)
    THEN [ok |-> TRUE, url |-> sGithubUrl \o s \o sDotGit]
    ELSE [ok |-> FALSE, err |-> "Invalid swift package repo", arg |-> s]

NotRun == [ok |-> FALSE, err |-> "not run", arg |-> <<>>]

-----------------------------------------------------------------------------
(* The install pipeline: its inputs and the outside it calls *)

Attempts == {"a1", "a2"}

sLatest == <<"l","a","t","e","s","t">>

\* The tags of the releases, and the versions a caller asks for.
Tags == { <<"1">>, <<"2">> }
Requested == Tags \cup {sLatest}

\* The package identifiers: a shorthand, a full URL of another repository,
\* and a string that is neither.
nShorthand == <<"o","/","o","_","o">>
nFullUrl   == sGithubUrl \o <<"o","_","o","/","o">> \o sDotGit
nInvalid   == <<"o"," ","o">>
PackageNames == {nShorthand, nFullUrl, nInvalid}

\* github::list_releases: the tag names of the releases, newest first.
ReleaseLists == { <<>>, << <<"2">>, <<"1">> >>, << <<"1">>, <<"2">> >> }

\* The products of the manifests `swift package dump-package` prints: each a
\* name and the keys of its "type" mapping, in the order of the JSON text.
pA == <<"a">>
pB == <<"b">>
pL == <<"l">>
kExecutable == "executable"
kLibrary    == "library"
Manifests ==
    { <<>>,
      << [name |-> pL, type |-> <<kLibrary>>] >>,
      << [name |-> pA, type |-> <<kExecutable>>] >>,
      << [name |-> pA, type |-> <<kExecutable>>],
         [name |-> pL, type |-> <<kLibrary>>],
         [name |-> pB, type |-> <<kExecutable>>] >>,
      << [name |-> pA, type |-> <<>>] >>,
      << [name |-> pA, type |-> <<kLibrary, kExecutable>>] >> }

NoManifest == << [name |-> <<>>, type |-> <<"<none>">>] >>

\* No string, and no list of strings.
None   == <<"<none>">>
NoList == << <<"<none>">> >>

-----------------------------------------------------------------------------
(* Paths *)

sTempDir == <<"/","t","m","p">>
sSpm     == <<"s","p","m">>
sBuildRelease == <<"/",".","b","u","i","l","d","/","r","e","l","e","a","s","e">>

\* PathBuf::join: an absolute component replaces the path.
Join(base, comp) ==
    IF StartsWith(comp, <<"/">>) THEN comp ELSE base \o <<"/">> \o comp

\* clone_package_repo, lines 101-108: the name of the workspace directory.
RepoDirName(url, revision) ==
    Replace(Replace(Replace(Replace(Replace(url,
        <<":","/","/">>, <<"_">>), <<"/">>, <<"_">>), <<"?">>, <<"_">>),
        <<"&">>, <<"_">>), <<":">>, <<"_">>)
    \o <<"@">> \o revision

\* clone_package_repo, line 109
TmpRepoDir(url, revision) == Join(Join(sTempDir, sSpm), RepoDirName(url, revision))

\* Every workspace directory an attempt can compute.
Dirs == { TmpRepoDir(from_str(n).url, v) :
              n \in {m \in PackageNames : from_str(m).ok}, v \in Tags }

-----------------------------------------------------------------------------
(* The build output tree and copy_build_artifacts *)

sDylib  == <<"d","y","l","i","b">>
sBundle == <<"b","u","n","d","l","e">>

fLib      == <<"l",".","d","y","l","i","b">>
fBundle   == <<"R",".","b","u","n","d","l","e">>
fInner    == <<"i",".","t","x","t">>
fReadme   == <<"n",".","t","x","t">>
fSub      == <<"d">>
fSubLib   == <<"x",".","d","y","l","i","b">>

\* The entries below the build output directory once the products of
\* `built` are built, each by its path relative to that directory.
BuildTree(built) ==
    { [path |-> <<p>>, dir |-> FALSE] : p \in built }
    \cup { [path |-> <<fLib>>, dir |-> FALSE],
           [path |-> <<fBundle>>, dir |-> TRUE],
           [path |-> <<fBundle, fInner>>, dir |-> FALSE],
           [path |-> <<fReadme>>, dir |-> FALSE],
           [path |-> <<fSub>>, dir |-> TRUE],
           [path |-> <<fSub, fSubLib>>, dir |-> FALSE] }

\* Path::extension of a file name: what follows its last '.', unless the
\* name has none or only starts with one.
Extension(fname) ==
    LET k == LastOf(fname, {"."})
    IN  IF k <= 1 THEN <<>> ELSE Drop(fname, k)

\* IsArtifact that takes only dylib for an artifact's extension.
IsArtifactDylibOnly(e) == Extension(e.path[Len(e.path)]) = sDylib

\* copy_build_artifacts, lines 190-194: the filter of the walk.
IsArtifact(e) == Extension(e.path[Len(e.path)]) \in {sDylib, sBundle}

IsPrefix(p, q) == Len(p) <= Len(q) /\ SubSeq(q, 1, Len(p)) = p

\* copy_build_artifacts, lines 195-205: what the walk copies, a directory
\* with everything below it.
WalkCopies(tree) ==
    { e.path : e \in { f \in tree : \E g \in tree :
                            /\ IsArtifact(g)
                            /\ \/ g.path = f.path
                               \/ g.dir /\ IsPrefix(g.path, f.path) } }

-----------------------------------------------------------------------------
(* The manifest decoder *)

\* deserialize_product_type_field: the first key decides; a mapping without
\* a key is an error, and so is one with a key left unread.
TypeDecodes(type) == Len(type) = 1

\* IsExecutableType that takes every key for "executable".
IsExecutableTypeAnyKey(type) == Len(type) >= 1

IsExecutableType(type) == type[1] = kExecutable

ManifestDecodes(m) == \A i \in 1..Len(m) : TypeDecodes(m[i].type)

RECURSIVE ExecutableNamesReversed(_)
\* ExecutableNames with each name put before the ones found so far.
ExecutableNamesReversed(m) ==
    IF m = <<>> THEN <<>>
    ELSE ExecutableNamesReversed(Tail(m))
         \o (IF IsExecutableType(Head(m).type) THEN <<Head(m).name>> ELSE <<>>)

RECURSIVE ExecutableNames(_)
\* get_executable_names, lines 130-134
ExecutableNames(m) ==
    IF m = <<>> THEN <<>>
    ELSE (IF IsExecutableType(Head(m).type) THEN <<Head(m).name>> ELSE <<>>)
         \o ExecutableNames(Tail(m))

-----------------------------------------------------------------------------
(* The remote version cache *)

RECURSIVE Reverse(_)
Reverse(s) == IF s = <<>> THEN <<>> ELSE Reverse(Tail(s)) \o <<Head(s)>>

\* ReleasesToVersions without the .rev().
ReleasesToVersionsUnreversed(releases) == releases

\* ReleasesToVersions that leaves out the newest release.
ReleasesToVersionsDropNewest(releases) ==
    IF releases = <<>> THEN <<>> ELSE Reverse(Tail(releases))

\* _list_remote_versions, lines 48-52: the producer handed to the cache.
ReleasesToVersions(releases) == Reverse(releases)

\* Whether a request for n reads the stored list rather than calling the
\* producer (CacheManager::get_or_try_init).
CacheHit(n) == cache[n] # NoList

\* ListRemoteVersionsResult with the producer called past the cache.
ListRemoteVersionsResultUncached(n, releases) ==
    IF releases = NoList THEN NoList ELSE ReleasesToVersions(releases)

\* _list_remote_versions, for identifier n, with `releases` what
\* github::list_releases returns if called (NoList: it fails).  The Result is
\* the list returned, or NoList for the error of the fetch.
ListRemoteVersionsResult(n, releases) ==
    IF CacheHit(n) THEN cache[n]
    ELSE IF releases = NoList THEN NoList
    ELSE ReleasesToVersions(releases)

ListRemoteVersionsEffect(n, releases) ==
    LET res == ListRemoteVersionsResult(n, releases)
    IN  /\ fetches' = [fetches EXCEPT ![n] = IF CacheHit(n) THEN @ ELSE @ + 1]
        /\ cache' = [cache EXCEPT ![n] = IF CacheHit(n) THEN @ ELSE res]
        /\ lastFetched' = [lastFetched EXCEPT ![n] =
                              IF CacheHit(n) \/ releases = NoList THEN @ ELSE releases]
        /\ listCalls' = [listCalls EXCEPT ![n] = @ + 1]
        /\ lastList' = [lastList EXCEPT ![n] = res]
        /\ firstList' = [firstList EXCEPT ![n] =
                            IF @ = NoList /\ res # NoList THEN res ELSE @]

\* Backend::latest_stable_version: the last of the remote versions.
LatestStableVersion(list) == IF list = <<>> THEN None ELSE list[Len(list)]

-----------------------------------------------------------------------------
(* install_version_impl, step by step *)

Event(op, arg) == [op |-> op, arg |-> arg]

Log(a, op, arg) == trace' = [trace EXCEPT ![a] = Append(@, Event(op, arg))]

\* A call of the build toolchain, with its command line.
LogCmd(a, op, arg, argv) ==
    trace' = [trace EXCEPT ![a] = Append(@, [op |-> op, arg |-> arg, argv |-> argv])]

\* build_executable, lines 146-153: the command line of the build.
BuildArgs(executable, dir) ==
    [program |-> "swift", command |-> "build", configuration |-> "release",
     product |-> executable, package_path |-> dir, show_bin_path |-> FALSE]

\* ShowBinPathArgs with the configuration left to the toolchain's default.
ShowBinPathArgsDebug(executable, dir) ==
    [program |-> "swift", command |-> "build", configuration |-> "debug",
     product |-> executable, package_path |-> dir, show_bin_path |-> TRUE]

\* build_executable, lines 156-166: the command line of the query.
ShowBinPathArgs(executable, dir) ==
    [program |-> "swift", command |-> "build", configuration |-> "release",
     product |-> executable, package_path |-> dir, show_bin_path |-> TRUE]

Goto(a, label) == pc' = [pc EXCEPT ![a] = label]

Fail(a, e) ==
    /\ pc' = [pc EXCEPT ![a] = "failed"]
    /\ err' = [err EXCEPT ![a] = e]

Running(a) == pc[a] \notin {"idle", "ok", "failed"}

Item(a, what, prod) == [by |-> a, what |-> what, prod |-> prod]

Exists(d) == ws[d] # {}

HasClone(d) == \E it \in ws[d] : it.what = "clone"
HasCheckout(d) == \E it \in ws[d] : it.what = "checkout"
Built(d) == { it.prod : it \in {x \in ws[d] : x.what = "build"} }

\* EnsureExperimental without the check.
EnsureExperimentalSkipped(a) ==
    /\ pc[a] = "idle"
    /\ serial => \A b \in Attempts : ~Running(b)
    /\ Goto(a, "from_str")
    /\ UNCHANGED <<resolveVars, inputVars, manifest, repo_url, version, repo_dir,
                   executables, idx, bin_path, err, trace, dest, ws, spmRoot, cacheVars>>

\* line 59: settings.ensure_experimental("spm backend")?
EnsureExperimental(a) ==
    /\ pc[a] = "idle"
    /\ serial => \A b \in Attempts : ~Running(b)
    /\ IF experimental
       THEN Goto(a, "from_str") /\ UNCHANGED err
       ELSE Fail(a, "experimental features are not enabled")
    /\ UNCHANGED <<resolveVars, inputVars, manifest, repo_url, version, repo_dir,
                   executables, idx, bin_path, trace, dest, ws, spmRoot, cacheVars>>

\* ResolveRepo that has the scratch root made before it returns the error.
ResolveRepoCreatesRoot(a) ==
    /\ pc[a] = "from_str"
    /\ LET r == from_str(name[a])
       IN  IF r.ok
           THEN /\ repo_url' = [repo_url EXCEPT ![a] = r.url]
                /\ Goto(a, "version")
                /\ UNCHANGED <<err, spmRoot>>
           ELSE /\ Fail(a, r.err)
                /\ spmRoot' = TRUE
                /\ UNCHANGED repo_url
    /\ UNCHANGED <<resolveVars, inputVars, manifest, version, repo_dir, executables, idx,
                   bin_path, trace, dest, ws, cacheVars>>

\* line 61: SwiftPackageRepo::from_str(self.name())?.url
ResolveRepo(a) ==
    /\ pc[a] = "from_str"
    /\ LET r == from_str(name[a])
       IN  IF r.ok
           THEN /\ repo_url' = [repo_url EXCEPT ![a] = r.url]
                /\ Goto(a, "version")
                /\ UNCHANGED err
           ELSE /\ Fail(a, r.err)
                /\ UNCHANGED repo_url
    /\ UNCHANGED <<resolveVars, inputVars, manifest, version, repo_dir, executables, idx,
                   bin_path, trace, dest, ws, spmRoot, cacheVars>>

\* lines 62-67, a concrete version
ResolveVersionGiven(a) ==
    /\ pc[a] = "version"
    /\ requested[a] # sLatest
    /\ version' = [version EXCEPT ![a] = requested[a]]
    /\ Goto(a, "remove_all")
    /\ UNCHANGED <<resolveVars, inputVars, manifest, repo_url, repo_dir, executables, idx,
                   bin_path, err, trace, dest, ws, spmRoot, cacheVars>>

\* lines 62-64, "latest": latest_stable_version over _list_remote_versions
ResolveVersionLatest(a) ==
    /\ pc[a] = "version"
    /\ requested[a] = sLatest
    /\ \E releases \in ReleaseLists \cup {NoList} :
         LET res == ListRemoteVersionsResult(name[a], releases)
         IN  /\ ListRemoteVersionsEffect(name[a], releases)
             /\ Log(a, IF CacheHit(name[a]) THEN "cache" ELSE "list_releases", name[a])
             /\ IF res = NoList
                THEN Fail(a, "list_releases failed") /\ UNCHANGED version
                ELSE IF LatestStableVersion(res) = None
                THEN Fail(a, "No stable versions found") /\ UNCHANGED version
                ELSE /\ version' = [version EXCEPT ![a] = LatestStableVersion(res)]
                     /\ Goto(a, "remove_all")
                     /\ UNCHANGED err
    /\ UNCHANGED <<resolveVars, inputVars, manifest, repo_url, repo_dir, executables, idx,
                   bin_path, dest, ws, spmRoot>>

\* RemoveWorkspace that leaves a directory another attempt is working in.
RemoveWorkspaceUnlessInUse(a) ==
    /\ pc[a] = "remove_all"
    /\ LET d == TmpRepoDir(repo_url[a], version[a])
       IN  /\ repo_dir' = [repo_dir EXCEPT ![a] = d]
           /\ Log(a, "remove_all", d)
           /\ ws' = IF \E b \in Attempts \ {a} : Running(b) /\ repo_dir[b] = d
                    THEN ws ELSE [ws EXCEPT ![d] = {}]
           /\ Goto(a, "create_dir_all")
           /\ UNCHANGED err
    /\ UNCHANGED <<resolveVars, inputVars, manifest, repo_url, version, executables,
                   idx, bin_path, dest, spmRoot, cacheVars>>

\* RemoveWorkspace without the forced removal.
RemoveWorkspaceSkipped(a) ==
    /\ pc[a] = "remove_all"
    /\ LET d == TmpRepoDir(repo_url[a], version[a])
       IN  /\ repo_dir' = [repo_dir EXCEPT ![a] = d]
           /\ Log(a, "remove_all", d)
           /\ Goto(a, "create_dir_all")
           /\ UNCHANGED <<err, ws>>
    /\ UNCHANGED <<resolveVars, inputVars, manifest, repo_url, version, executables,
                   idx, bin_path, dest, spmRoot, cacheVars>>

\* clone_package_repo, lines 101-110: file::remove_all(&tmp_repo_dir)?
RemoveWorkspace(a) ==
    /\ pc[a] = "remove_all"
    /\ LET d == TmpRepoDir(repo_url[a], version[a])
       IN  /\ repo_dir' = [repo_dir EXCEPT ![a] = d]
           /\ Log(a, "remove_all", d)
           /\ \/ /\ ws' = [ws EXCEPT ![d] = {}]
                 /\ Goto(a, "create_dir_all")
                 /\ UNCHANGED err
              \/ /\ Fail(a, "remove_all failed")
                 /\ UNCHANGED ws
    /\ UNCHANGED <<resolveVars, inputVars, manifest, repo_url, version, executables, idx,
                   bin_path, dest, spmRoot, cacheVars>>

\* clone_package_repo, line 111: file::create_dir_all(parent)?
CreateParent(a) ==
    /\ pc[a] = "create_dir_all"
    /\ Log(a, "create_dir_all", Join(sTempDir, sSpm))
    /\ \/ /\ spmRoot' = TRUE
          /\ Goto(a, "clone")
          /\ UNCHANGED err
       \/ /\ Fail(a, "create_dir_all failed")
          /\ UNCHANGED spmRoot
    /\ UNCHANGED <<resolveVars, inputVars, manifest, repo_url, version, repo_dir,
                   executables, idx, bin_path, dest, ws, cacheVars>>

\* clone_package_repo, lines 113-114: git.clone(&repo_url)?  git refuses a
\* directory that is not empty; a clone that fails may leave a part behind.
Clone(a) ==
    /\ pc[a] = "clone"
    /\ Log(a, "clone", repo_url[a])
    /\ LET d == repo_dir[a]
       IN  \/ /\ ws[d] = {} /\ spmRoot
              /\ ws' = [ws EXCEPT ![d] = {Item(a, "clone", repo_url[a])}]
              /\ Goto(a, "checkout")
              /\ UNCHANGED err
           \/ /\ Fail(a, "git clone failed")
              /\ \/ UNCHANGED ws
                 \/ /\ ws[d] = {} /\ spmRoot
                    /\ ws' = [ws EXCEPT ![d] = {Item(a, "partial", repo_url[a])}]
    /\ UNCHANGED <<resolveVars, inputVars, manifest, repo_url, version, repo_dir,
                   executables, idx, bin_path, dest, spmRoot, cacheVars>>

\* Checkout that goes on to the manifest when git.update fails.
CheckoutIgnoresFailure(a) ==
    /\ pc[a] = "checkout"
    /\ Log(a, "checkout", version[a])
    /\ LET d == repo_dir[a]
       IN  \/ /\ HasClone(d)
              /\ ws' = [ws EXCEPT ![d] = @ \cup {Item(a, "checkout", version[a])}]
           \/ UNCHANGED ws
    /\ Goto(a, "dump_package")
    /\ UNCHANGED <<resolveVars, inputVars, manifest, repo_url, version, repo_dir,
                   executables, idx, bin_path, err, dest, spmRoot, cacheVars>>

\* clone_package_repo, lines 115-116: git.update(Some(revision))?
Checkout(a) ==
    /\ pc[a] = "checkout"
    /\ Log(a, "checkout", version[a])
    /\ LET d == repo_dir[a]
       IN  \/ /\ HasClone(d)
              /\ ws' = [ws EXCEPT ![d] = @ \cup {Item(a, "checkout", version[a])}]
              /\ Goto(a, "dump_package")
              /\ UNCHANGED err
           \/ /\ Fail(a, "git update failed")
              /\ UNCHANGED ws
    /\ UNCHANGED <<resolveVars, inputVars, manifest, repo_url, version, repo_dir,
                   executables, idx, bin_path, dest, spmRoot, cacheVars>>

\* DumpPackage without the check of lines 70-72: the loop runs no round.
DumpPackageNoEmptyCheck(a) ==
    /\ pc[a] = "dump_package"
    /\ Log(a, "dump-package", repo_dir[a])
    /\ \/ /\ HasCheckout(repo_dir[a])
          /\ \E m \in Manifests :
               IF ~ManifestDecodes(m)
               THEN Fail(a, "Failed to parse package description")
                    /\ UNCHANGED <<manifest, executables, idx>>
               ELSE /\ manifest' = [manifest EXCEPT ![a] = m]
                    /\ executables' = [executables EXCEPT ![a] = ExecutableNames(m)]
                    /\ IF ExecutableNames(m) = <<>>
                       THEN Goto(a, "cleanup") /\ UNCHANGED idx
                       ELSE idx' = [idx EXCEPT ![a] = 1] /\ Goto(a, "build")
                    /\ UNCHANGED err
       \/ /\ Fail(a, "swift package dump-package failed")
          /\ UNCHANGED <<manifest, executables, idx>>
    /\ UNCHANGED <<resolveVars, inputVars, repo_url, version, repo_dir,
                   bin_path, dest, ws, spmRoot, cacheVars>>

\* get_executable_names and lines 69-72
DumpPackage(a) ==
    /\ pc[a] = "dump_package"
    /\ Log(a, "dump-package", repo_dir[a])
    /\ \/ /\ HasCheckout(repo_dir[a])
          /\ \E m \in Manifests :
               IF ~ManifestDecodes(m)
               THEN Fail(a, "Failed to parse package description")
                    /\ UNCHANGED <<manifest, executables, idx>>
               ELSE /\ manifest' = [manifest EXCEPT ![a] = m]
                    /\ executables' = [executables EXCEPT ![a] = ExecutableNames(m)]
                    /\ IF ExecutableNames(m) = <<>>
                       THEN Fail(a, "No executables found in the package")
                            /\ UNCHANGED idx
                       ELSE /\ idx' = [idx EXCEPT ![a] = 1]
                            /\ Goto(a, "build")
                            /\ UNCHANGED err
       \/ /\ Fail(a, "swift package dump-package failed")
          /\ UNCHANGED <<manifest, executables, idx>>
    /\ UNCHANGED <<resolveVars, inputVars, repo_url, version, repo_dir,
                   bin_path, dest, ws, spmRoot, cacheVars>>

\* Build that removes the workspace when the build fails.
BuildFailureCleans(a) ==
    /\ pc[a] = "build"
    /\ LET d == repo_dir[a]
           p == executables[a][idx[a]]
       IN  /\ LogCmd(a, "build", p, BuildArgs(p, d))
           /\ \/ /\ HasCheckout(d)
                 /\ ws' = [ws EXCEPT ![d] = @ \cup {Item(a, "build", p)}]
                 /\ Goto(a, "show-bin-path")
                 /\ UNCHANGED err
              \/ /\ Fail(a, "swift build failed")
                 /\ ws' = [ws EXCEPT ![d] = {}]
    /\ UNCHANGED <<resolveVars, inputVars, manifest, repo_url, version, repo_dir,
                   executables, idx, bin_path, dest, spmRoot, cacheVars>>

\* build_executable, lines 146-155: swift build --product executable
Build(a) ==
    /\ pc[a] = "build"
    /\ LET d == repo_dir[a]
           p == executables[a][idx[a]]
       IN  /\ LogCmd(a, "build", p, BuildArgs(p, d))
           /\ \/ /\ HasCheckout(d)
                 /\ ws' = [ws EXCEPT ![d] = @ \cup {Item(a, "build", p)}]
                 /\ Goto(a, "show-bin-path")
                 /\ UNCHANGED err
              \/ /\ Fail(a, "swift build failed")
                 /\ UNCHANGED ws
    /\ UNCHANGED <<resolveVars, inputVars, manifest, repo_url, version, repo_dir,
                   executables, idx, bin_path, dest, spmRoot, cacheVars>>

\* build_executable, lines 156-168: swift build --show-bin-path
ShowBinPath(a) ==
    /\ pc[a] = "show-bin-path"
    /\ LET d == repo_dir[a]
           p == executables[a][idx[a]]
       IN  /\ LogCmd(a, "show-bin-path", p, ShowBinPathArgs(p, d))
           /\ \/ /\ HasClone(d)
                 /\ bin_path' = [bin_path EXCEPT ![a] = d \o sBuildRelease]
                 /\ Goto(a, "copy")
                 /\ UNCHANGED err
              \/ /\ Fail(a, "swift build --show-bin-path failed")
                 /\ UNCHANGED bin_path
    /\ UNCHANGED <<resolveVars, inputVars, manifest, repo_url, version, repo_dir,
                   executables, idx, dest, ws, spmRoot, cacheVars>>

\* CopyBuildArtifacts that, when a copy fails, takes back what the attempt
\* has copied so far.
CopyBuildArtifactsRollback(a) ==
    /\ pc[a] = "copy"
    /\ LET d == repo_dir[a]
           p == executables[a][idx[a]]
       IN  /\ Log(a, "copy", p)
           /\ \/ /\ p \in Built(d)
                 /\ dest' = [dest EXCEPT ![a] =
                               @ \cup {<<p>>} \cup WalkCopies(BuildTree(Built(d)))]
                 /\ IF idx[a] < Len(executables[a])
                    THEN idx' = [idx EXCEPT ![a] = @ + 1] /\ Goto(a, "build")
                    ELSE UNCHANGED idx /\ Goto(a, "cleanup")
                 /\ UNCHANGED err
              \/ /\ dest' = [dest EXCEPT ![a] = {}]
                 /\ Fail(a, "copy failed")
                 /\ UNCHANGED idx
    /\ UNCHANGED <<resolveVars, inputVars, manifest, repo_url, version, repo_dir,
                   executables, bin_path, ws, spmRoot, cacheVars>>

\* copy_build_artifacts and the end of the loop body, lines 73-76
CopyBuildArtifacts(a) ==
    /\ pc[a] = "copy"
    /\ LET d == repo_dir[a]
           p == executables[a][idx[a]]
       IN  /\ Log(a, "copy", p)
           /\ \/ /\ p \in Built(d)
                 /\ dest' = [dest EXCEPT ![a] =
                               @ \cup {<<p>>} \cup WalkCopies(BuildTree(Built(d)))]
                 /\ IF idx[a] < Len(executables[a])
                    THEN idx' = [idx EXCEPT ![a] = @ + 1] /\ Goto(a, "build")
                    ELSE UNCHANGED idx /\ Goto(a, "cleanup")
                 /\ UNCHANGED err
              \/ /\ p \in Built(d)
                 /\ dest' = [dest EXCEPT ![a] = @ \cup {<<p>>}]
                 /\ Fail(a, "copy failed")
                 /\ UNCHANGED idx
              \/ /\ Fail(a, "copy failed")
                 /\ UNCHANGED <<dest, idx>>
    /\ UNCHANGED <<resolveVars, inputVars, manifest, repo_url, version, repo_dir,
                   executables, bin_path, ws, spmRoot, cacheVars>>

\* Cleanup that returns Ok(()) without the removal.
CleanupSkipped(a) ==
    /\ pc[a] = "cleanup"
    /\ Log(a, "cleanup", repo_dir[a])
    /\ Goto(a, "ok")
    /\ UNCHANGED <<resolveVars, inputVars, manifest, repo_url, version, repo_dir,
                   executables, idx, bin_path, err, dest, ws, spmRoot, cacheVars>>

\* lines 78-81: file::remove_all(&repo_dir)?; Ok(())
Cleanup(a) ==
    /\ pc[a] = "cleanup"
    /\ Log(a, "cleanup", repo_dir[a])
    /\ \/ /\ ws' = [ws EXCEPT ![repo_dir[a]] = {}]
          /\ Goto(a, "ok")
          /\ UNCHANGED err
       \/ /\ Fail(a, "remove_all failed")
          /\ UNCHANGED ws
    /\ UNCHANGED <<resolveVars, inputVars, manifest, repo_url, version, repo_dir,
                   executables, idx, bin_path, dest, spmRoot, cacheVars>>

\* A caller's _list_remote_versions request for identifier n.
ListRemoteVersions(n) ==
    /\ n \in {name[a] : a \in Attempts}
    /\ listCalls[n] < MaxListCalls
    /\ \E releases \in ReleaseLists \cup {NoList} :
          ListRemoteVersionsEffect(n, releases)
    /\ UNCHANGED <<resolveVars, inputVars, attemptVars, ws, spmRoot>>

Step(a) ==
    \/ EnsureExperimental(a)
    \/ ResolveRepo(a)
    \/ ResolveVersionGiven(a)
    \/ ResolveVersionLatest(a)
    \/ RemoveWorkspace(a)
    \/ CreateParent(a)
    \/ Clone(a)
    \/ Checkout(a)
    \/ DumpPackage(a)
    \/ Build(a)
    \/ ShowBinPath(a)
    \/ CopyBuildArtifacts(a)
    \/ Cleanup(a)

Next == \E a \in Attempts : Step(a)

\* The install attempts, and a caller's requests for the remote versions.
NextCache ==
    \/ \E a \in Attempts : Step(a)
    \/ \E n \in PackageNames : ListRemoteVersions(n)

IdleAttempts ==
    /\ pc = [a \in Attempts |-> "idle"]
    /\ repo_url = [a \in Attempts |-> None]
    /\ version = [a \in Attempts |-> None]
    /\ repo_dir = [a \in Attempts |-> None]
    /\ manifest = [a \in Attempts |-> NoManifest]
    /\ executables = [a \in Attempts |-> <<>>]
    /\ idx = [a \in Attempts |-> 0]
    /\ bin_path = [a \in Attempts |-> None]
    /\ err = [a \in Attempts |-> ""]
    /\ trace = [a \in Attempts |-> <<>>]
    /\ dest = [a \in Attempts |-> {}]

EmptyOutside ==
    /\ ws = [d \in Dirs |-> {}]
    /\ spmRoot = FALSE
    /\ cache = [n \in PackageNames |-> NoList]
    /\ listCalls = [n \in PackageNames |-> 0]
    /\ fetches = [n \in PackageNames |-> 0]
    /\ lastFetched = [n \in PackageNames |-> NoList]
    /\ firstList = [n \in PackageNames |-> NoList]
    /\ lastList = [n \in PackageNames |-> NoList]

InitInputs ==
    /\ experimental \in BOOLEAN
    /\ name \in [Attempts -> PackageNames]
    /\ requested \in [Attempts -> Requested]
    /\ rIn = <<>>
    /\ rOut = NotRun
    /\ IdleAttempts
    /\ EmptyOutside

\* The attempts run concurrently.
Init == InitInputs /\ serial = FALSE

\* The caller runs the attempts one after another.
InitSeq == InitInputs /\ serial = TRUE

Spec == Init /\ [][Next]_vars

SpecSeq == InitSeq /\ [][Next]_vars

\* One identifier, its version list requested by a caller and by the
\* installs of "latest", one after another.
InitCache ==
    /\ experimental = TRUE
    /\ serial = TRUE
    /\ name = [a \in Attempts |-> nShorthand]
    /\ requested \in [Attempts -> {sLatest, <<"1">>}]
    /\ rIn = <<>>
    /\ rOut = NotRun
    /\ IdleAttempts
    /\ EmptyOutside

SpecCache == InitCache /\ [][NextCache]_vars

-----------------------------------------------------------------------------
(* Claims about the install pipeline *)

Ops(a) == {trace[a][i].op : i \in 1..Len(trace[a])}

\* Between an attempt's own clone and its last artifact copy.
InFlight == {"checkout", "dump_package", "build", "show-bin-path", "copy"}

\* C3: two attempts that differ in the package identifier or in the version
\* work in different workspace directories.
C3_DistinctPairsDistinctWorkspaces ==
    \A a, b \in Attempts :
        /\ a # b
        /\ repo_dir[a] # None /\ repo_dir[b] # None
        /\ name[a] # name[b] \/ version[a] # version[b]
        => repo_dir[a] # repo_dir[b]

\* C4: two attempts of the same identifier and version work in the same
\* workspace directory, and nothing holds back the removal one of them makes
\* (the forced removal before its clone, or its cleanup): when it happens while
\* the other is between its clone and its last copy, the other's checkout and
\* build are gone.
C4_SamePairRacesOnWorkspace ==
    [][\A a, b \in Attempts :
          a # b /\ name[a] = name[b] /\ version'[a] = version'[b] =>
            /\ repo_dir'[a] # None /\ repo_dir'[b] # None
                  => repo_dir'[a] = repo_dir'[b]
            /\ /\ \/ pc[a] = "remove_all" /\ pc'[a] = "create_dir_all"
                  \/ pc[a] = "cleanup" /\ pc'[a] = "ok"
               /\ pc[b] \in InFlight
               => ws'[repo_dir[b]] = {}]_vars

\* An attempt has cloned and is not through its copies, and the other
\* attempt of the same identifier and version has removed its checkout.
C4_Witness ==
    \E a, b \in Attempts :
        /\ a # b /\ name[a] = name[b] /\ version[a] = version[b]
        /\ pc[b] \in {"build", "show-bin-path", "copy"}
        /\ ws[repo_dir[b]] = {}
        /\ pc[a] = "create_dir_all"

\* C5, as claimed: the release listing is fetched at most once per
\* identifier, and every request returns the list the first one returned.
C5_FetchAtMostOnce ==
    \A n \in PackageNames :
        /\ fetches[n] <= 1
        /\ firstList[n] # NoList => lastList[n] = firstList[n]

\* C5, amended: once a request has returned a list, no later request fetches
\* and each returns that list; a request whose fetch failed stored nothing,
\* and the next request fetches again.
C5_NoFetchAfterAList ==
    [][\A n \in PackageNames :
          listCalls'[n] > listCalls[n] =>
            /\ firstList[n] # NoList =>
                  /\ fetches'[n] = fetches[n]
                  /\ lastList'[n] = firstList[n]
            /\ firstList[n] = NoList => fetches'[n] = fetches[n] + 1
            /\ fetches'[n] <= listCalls'[n]]_vars

\* A fetch failed, the next one succeeded, and a request after it returned
\* the stored list without a third fetch.
C5_Witness ==
    \E n \in PackageNames :
        /\ fetches[n] = 2
        /\ listCalls[n] >= 3
        /\ firstList[n] # NoList /\ Len(firstList[n]) = 2
        /\ lastList[n] = firstList[n]

\* C6: an install of "latest" takes the last element of the remote version
\* list, which is the tag of the first release in the order of the hosting
\* API; with an empty list it fails with "No stable versions found" and has
\* removed, cloned and built nothing.
C6_LatestIsLastOfList ==
    [][\A a \in Attempts :
          pc[a] = "version" /\ requested[a] = sLatest /\ pc'[a] # "version" =>
            LET l == lastList'[name[a]]
            IN  /\ l # NoList /\ l # <<>> =>
                      /\ pc'[a] = "remove_all"
                      /\ version'[a] = l[Len(l)]
                      /\ version'[a] = lastFetched'[name[a]][1]
                /\ l = <<>> =>
                      /\ pc'[a] = "failed"
                      /\ err'[a] = "No stable versions found"
                      /\ ws' = ws /\ spmRoot' = spmRoot /\ dest' = dest
                      /\ \A i \in 1..Len(trace'[a]) :
                            trace'[a][i].op \in {"list_releases", "cache"}]_vars

\* An install of "latest" went on with "1", the first release of the API's
\* order, where the releases are "1" and then "2".
C6_Witness ==
    \E a \in Attempts :
        /\ requested[a] = sLatest
        /\ pc[a] = "clone"
        /\ version[a] = <<"1">>
        /\ lastFetched[name[a]] = << <<"1">>, <<"2">> >>

\* C7: with a decoded manifest that has no executable product the attempt
\* has failed with "No executables found in the package", has invoked neither
\* a build nor an output-path query, and has written nothing to the install
\* destination.
C7_NoExecutablesFails ==
    \A a \in Attempts :
        /\ manifest[a] # NoManifest
        /\ \A i \in 1..Len(manifest[a]) : manifest[a][i].type # <<kExecutable>>
        => /\ pc[a] = "failed"
           /\ err[a] = "No executables found in the package"
           /\ Ops(a) \cap {"build", "show-bin-path", "copy"} = {}
           /\ dest[a] = {}

C7_Witness ==
    \E a \in Attempts :
        /\ manifest[a] = << [name |-> pL, type |-> <<kLibrary>>] >>
        /\ pc[a] = "failed"

\* C8: when an attempt returns Ok(()), its workspace directory does not
\* exist, and the removal came after the copy of every executable product.
C8_SuccessRemovesWorkspaceLast ==
    [][\A a \in Attempts :
          pc[a] # "ok" /\ pc'[a] = "ok" =>
            /\ ~Exists(repo_dir[a])'
            /\ trace'[a][Len(trace'[a])] = Event("cleanup", repo_dir[a])
            /\ \A i \in 1..Len(executables[a]) :
                  /\ <<executables[a][i]>> \in dest'[a]
                  /\ \E j \in 1..(Len(trace'[a]) - 1) :
                        trace'[a][j] = Event("copy", executables[a][i])
            /\ \A j \in 1..(Len(trace'[a]) - 1) : trace'[a][j].op # "cleanup"]_vars

C8_Witness ==
    \E a \in Attempts :
        /\ pc[a] = "ok"
        /\ Len(executables[a]) = 2
        /\ ~Exists(repo_dir[a])

\* C9: attempts with the same repository URL and version, run one after
\* another, work in the same directory, and when the clone of one begins
\* nothing is left at that path.
C9_CloneStartsClean ==
    \A a \in Attempts :
        /\ pc[a] = "clone" => ~Exists(repo_dir[a])
        /\ \A b \in Attempts :
              /\ repo_dir[a] # None /\ repo_dir[b] # None
              /\ repo_url[a] = repo_url[b] /\ version[a] = version[b]
              => repo_dir[a] = repo_dir[b]

\* An attempt that stopped after its checkout left its workspace behind, and
\* the next attempt for the same URL and version is about to clone.
C9_Witness ==
    \E a, b \in Attempts :
        /\ a # b
        /\ pc[b] = "failed" /\ "build" \in Ops(b)
        /\ pc[a] = "clone"
        /\ repo_url[a] = repo_url[b] /\ version[a] = version[b]
        /\ repo_dir[a] = repo_dir[b]
        /\ ~Exists(repo_dir[a])

PositionIn(m, nm) == CHOOSE i \in 1..Len(m) : m[i].name = nm

IsBuildEvent(e) == e.op \in {"build", "show-bin-path", "copy"}

\* C10: the executable products are handled one at a time in the order of
\* the manifest: build, output-path query and copy of one product, then the
\* build of the next.
C10_ProductsInManifestOrder ==
    \A a \in Attempts :
        LET bs == SelectSeq(trace[a], IsBuildEvent)
            ex == executables[a]
        IN  /\ \A j \in 1..Len(bs) :
                  /\ ((j - 1) \div 3) + 1 <= Len(ex)
                  /\ bs[j].op = <<"build", "show-bin-path", "copy">>[((j - 1) % 3) + 1]
                  /\ bs[j].arg = ex[((j - 1) \div 3) + 1]
            /\ \A i, j \in 1..Len(ex) :
                  i < j => PositionIn(manifest[a], ex[i]) < PositionIn(manifest[a], ex[j])

C10_Witness ==
    \E a \in Attempts :
        /\ executables[a] = <<pA, pB>>
        /\ pc[a] = "cleanup"
        /\ Len(SelectSeq(trace[a], IsBuildEvent)) = 6

\* C11: when the build or the copy of the k-th executable product fails, the
\* attempt ends with that failure, no build, query or copy of a later product
\* is in its trace, and what it had copied for the products before the k-th
\* is still in the destination; a failed attempt does nothing more.
C11_FailureAtProductKeepsEarlierCopies ==
    [][\A a \in Attempts :
          /\ pc[a] \in {"build", "copy"} /\ pc'[a] = "failed" =>
                LET ex == executables[a]
                    k == idx[a]
                IN  /\ err'[a] = IF pc[a] = "build" THEN "swift build failed"
                                                    ELSE "copy failed"
                    /\ dest[a] \subseteq dest'[a]
                    /\ \A i \in 1..(k - 1) : <<ex[i]>> \in dest'[a]
                    /\ \A j \in 1..Len(trace'[a]) : \A i \in (k + 1)..Len(ex) :
                          IsBuildEvent(trace'[a][j]) => trace'[a][j].arg # ex[i]
          /\ pc[a] = "failed" =>
                /\ pc'[a] = "failed" /\ err'[a] = err[a]
                /\ trace'[a] = trace[a] /\ dest'[a] = dest[a]]_vars

\* The copy of the second of two products failed after the first product's
\* executable and libraries were copied.
C11_Witness ==
    \E a \in Attempts :
        /\ pc[a] = "failed" /\ err[a] = "copy failed"
        /\ executables[a] = <<pA, pB>> /\ idx[a] = 2
        /\ <<pA>> \in dest[a] /\ <<fLib>> \in dest[a]

\* An entry whose own extension is dylib or bundle.
C12_Recognized(e) == Extension(e.path[Len(e.path)]) \in {sDylib, sBundle}

\* An entry below a directory whose extension is dylib or bundle.
C12_InsideRecognized(e, tree) ==
    \E g \in tree : /\ g.dir /\ C12_Recognized(g)
                    /\ Len(g.path) < Len(e.path)
                    /\ SubSeq(e.path, 1, Len(g.path)) = g.path

\* A copy step of attempt a that succeeded.
C12_Copied(a) == pc[a] = "copy" /\ pc'[a] \in {"build", "cleanup"}

\* What a successful copy step puts where it was not before.
C12_Added(a) == dest'[a] \ dest[a]

C13_HasExecutableKey(pr) == \E i \in 1..Len(pr.type) : pr.type[i] = kExecutable

\* C13: for a manifest that decoded, the executable names are the names of
\* the products whose type mapping has the key "executable", in the order of
\* the manifest, and no product with another key is among them.
C13_ExecutablesAreExecutableKeyed ==
    \A a \in Attempts :
        manifest[a] # NoManifest =>
            LET sel == SelectSeq(manifest[a], C13_HasExecutableKey)
                ex == executables[a]
            IN  /\ Len(ex) = Len(sel)
                /\ \A i \in 1..Len(sel) : ex[i] = sel[i].name
                /\ \A i \in 1..Len(manifest[a]) :
                      ~C13_HasExecutableKey(manifest[a][i]) =>
                          \A j \in 1..Len(ex) : ex[j] # manifest[a][i].name

\* A manifest of an executable, a library and another executable decoded to
\* the two executables.
C13_Witness ==
    \E a \in Attempts :
        /\ Len(manifest[a]) = 3
        /\ manifest[a][2].type = <<kLibrary>>
        /\ executables[a] = <<pA, pB>>

\* C14: the list a request for the remote versions returns has the tag names
\* of the releases the listing service returned, each once, the service's
\* first release last and so on backwards.
C14_VersionsAreTagsReversed ==
    \A n \in PackageNames :
        lastList[n] # NoList =>
            LET l == lastList[n]
                f == lastFetched[n]
            IN  /\ f # NoList
                /\ Len(l) = Len(f)
                /\ \A i \in 1..Len(l) : l[i] = f[Len(f) + 1 - i]

\* The service listed "1" and then "2", and the request returned "2", "1".
C14_Witness ==
    \E n \in PackageNames :
        /\ lastFetched[n] = << <<"1">>, <<"2">> >>
        /\ lastList[n] = << <<"2">>, <<"1">> >>
        /\ listCalls[n] >= 1

\* C16: the output-path query of a product starts only from that product's
\* build having succeeded, with the build's command line and the flag of the
\* query added; the copy starts only from the query, after the build; and
\* a build that fails ends the attempt with the build's error, with no query
\* and no copy of that product after it.
C16_QueryAndCopyAfterSuccessfulBuild ==
    [][\A a \in Attempts :
          LET p == executables[a][idx[a]]
              t == trace'[a]
              n == Len(trace'[a])
          IN  /\ pc[a] # "show-bin-path" /\ pc'[a] = "show-bin-path" =>
                    /\ pc[a] = "build"
                    /\ Item(a, "build", p) \in ws'[repo_dir[a]]
              /\ pc[a] = "show-bin-path" /\ pc'[a] # "show-bin-path" =>
                    /\ t[n].op = "show-bin-path" /\ t[n - 1].op = "build"
                    /\ t[n].argv = [t[n - 1].argv EXCEPT !.show_bin_path = TRUE]
                    /\ t[n].argv.configuration = "release"
                    /\ t[n].argv.product = p
                    /\ t[n].argv.package_path = repo_dir[a]
              /\ pc[a] # "copy" /\ pc'[a] = "copy" => pc[a] = "show-bin-path"
              /\ pc[a] = "copy" /\ pc'[a] # "copy" =>
                    /\ t[n] = Event("copy", p)
                    /\ t[n - 1].op = "show-bin-path" /\ t[n - 1].arg = p
                    /\ t[n - 2].op = "build" /\ t[n - 2].arg = p
              /\ pc[a] = "build" /\ pc'[a] = "failed" =>
                    /\ err'[a] = "swift build failed"
                    /\ t[n].op = "build" /\ t[n].arg = p
              /\ pc[a] = "failed" => pc'[a] = "failed" /\ trace'[a] = trace[a]]_vars

\* The first product was built, queried and copied, and the build of the
\* second failed: the trace ends with that build.
C16_Witness ==
    \E a \in Attempts :
        /\ pc[a] = "failed" /\ err[a] = "swift build failed"
        /\ executables[a] = <<pA, pB>> /\ idx[a] = 2
        /\ Len(SelectSeq(trace[a], IsBuildEvent)) = 4
        /\ trace[a][Len(trace[a])].op = "build"
        /\ trace[a][Len(trace[a])].arg = pB

\* From the start of the clone to the last copy.
C17_FromClone == {"clone", "checkout", "dump_package", "build", "show-bin-path", "copy"}

\* C17: when an attempt fails in its clone or later, before its cleanup, the
\* failing step takes nothing out of the workspace directory, the attempt
\* has made no removal since the one before its clone, and it makes no call
\* after the failure.
C17_FailureLeavesWorkspace ==
    [][\A a \in Attempts :
          /\ pc[a] \in C17_FromClone /\ pc'[a] = "failed" =>
                /\ ws[repo_dir[a]] \subseteq ws'[repo_dir[a]]
                /\ \A i \in 1..Len(trace'[a]) :
                      /\ trace'[a][i].op # "cleanup"
                      /\ trace'[a][i].op = "remove_all" =>
                            \E j \in (i + 1)..Len(trace'[a]) : trace'[a][j].op = "clone"
          /\ pc[a] = "failed" => pc'[a] = "failed" /\ trace'[a] = trace[a]]_vars

\* An attempt failed in the manifest decoding, and its clone and checkout
\* are in its workspace directory.
C17_Witness ==
    \E a \in Attempts :
        /\ pc[a] = "failed" /\ err[a] = "Failed to parse package description"
        /\ ws[repo_dir[a]] = {Item(a, "clone", repo_url[a]),
                              Item(a, "checkout", version[a])}

\* The stage that follows each stage when it succeeds.
C18_After(stage) ==
    CASE stage = "idle" -> {"from_str"}
      [] stage = "from_str" -> {"version"}
      [] stage = "version" -> {"remove_all"}
      [] stage = "remove_all" -> {"create_dir_all"}
      [] stage = "create_dir_all" -> {"clone"}
      [] stage = "clone" -> {"checkout"}
      [] stage = "checkout" -> {"dump_package"}
      [] stage = "dump_package" -> {"build"}
      [] stage = "build" -> {"show-bin-path"}
      [] stage = "show-bin-path" -> {"copy"}
      [] stage = "copy" -> {"build", "cleanup"}
      [] stage = "cleanup" -> {"ok"}
      [] OTHER -> {}

\* C18: an attempt goes from a stage to the next one of the order, and only
\* with what the stage was to produce in hand, or it ends with the error of
\* that stage; an attempt that has ended makes no further call, so no stage
\* runs again after a failure.
C18_StagesInOrderFirstFailureEnds ==
    [][\A a \in Attempts :
          /\ pc'[a] # pc[a] =>
                /\ pc'[a] \in C18_After(pc[a]) \cup {"failed"}
                /\ pc'[a] = "failed" <=> err'[a] # ""
                /\ pc'[a] = "version" => repo_url'[a] # None
                /\ pc'[a] = "remove_all" => version'[a] # None /\ version'[a] # sLatest
                /\ pc'[a] = "create_dir_all" => ws'[repo_dir'[a]] = {}
                /\ pc'[a] = "checkout" => HasClone(repo_dir[a])'
                /\ pc'[a] = "dump_package" => HasCheckout(repo_dir[a])'
                /\ pc[a] = "dump_package" /\ pc'[a] = "build" =>
                      /\ manifest'[a] # NoManifest
                      /\ executables'[a] # <<>> /\ idx'[a] = 1
                /\ pc'[a] = "show-bin-path" =>
                      executables[a][idx[a]] \in Built(repo_dir[a])'
                /\ pc'[a] = "copy" => bin_path'[a] # None
                /\ pc[a] = "copy" /\ pc'[a] = "build" =>
                      /\ idx'[a] = idx[a] + 1
                      /\ <<executables[a][idx[a]]>> \in dest'[a]
                /\ pc'[a] = "cleanup" =>
                      /\ idx[a] = Len(executables[a])
                      /\ <<executables[a][idx[a]]>> \in dest'[a]
                /\ Len(trace'[a]) <= Len(trace[a]) + 1
          /\ pc[a] \in {"ok", "failed"} =>
                /\ pc'[a] = pc[a] /\ err'[a] = err[a]
                /\ trace'[a] = trace[a]]_vars

\* An attempt failed in its checkout: its trace is the listing, the removal,
\* the creation of the parent, the clone and the checkout, each once.
C18_Witness ==
    \E a \in Attempts :
        /\ pc[a] = "failed" /\ err[a] = "git update failed"
        /\ requested[a] = sLatest
        /\ Len(trace[a]) = 5
        /\ trace[a][1].op = "list_releases" /\ trace[a][2].op = "remove_all"
        /\ trace[a][3].op = "create_dir_all" /\ trace[a][4].op = "clone"
        /\ trace[a][5].op = "checkout"

-----------------------------------------------------------------------------
(* SpecResolve: from_str applied to every identifier of at most MaxTokens    *)
(* tokens.                                                                   *)

IdTokens == { <<"h","t","t","p","s",":","/","/">>, <<"s","s","h",":","/","/">>,
              sGithubCom, sGithubCom \o <<"/">>, <<"/">>, <<"o">>, sDotGit,
              <<"?">>, <<" ">> }

RECURSIVE TokenSeqs(_)
TokenSeqs(n) ==
    IF n = 0 THEN {<<>>}
    ELSE LET S == TokenSeqs(n - 1)
         IN  S \cup {Append(ts, t) : ts \in S, t \in IdTokens}

Identifiers == {Flatten(ts) : ts \in TokenSeqs(MaxTokens)}

InitResolve ==
    /\ rIn \in Identifiers
    /\ rOut = NotRun
    /\ experimental = TRUE
    /\ serial = TRUE
    /\ name = [a \in Attempts |-> nInvalid]
    /\ requested = [a \in Attempts |-> sLatest]
    /\ IdleAttempts
    /\ EmptyOutside

Resolve ==
    /\ rOut = NotRun
    /\ rOut' = from_str(rIn)
    /\ UNCHANGED <<rIn, inputVars, attemptVars, ws, spmRoot, cacheVars>>

NextResolve == Resolve

SpecResolve == InitResolve /\ [][NextResolve]_vars

-----------------------------------------------------------------------------
(* Claims about the resolver, checked under SpecResolve *)

Expanded(s) == sGithubUrl \o s \o sDotGit

\* Form (a) of the claim: s parses as a URL whose host is github.com and
\* whose path ends in .git.
C1_IsUrlForm(s) ==
    /\ UrlParse(s).ok
    /\ UrlParse(s).host = sGithubCom
    /\ EndsWith(UrlParse(s).path, sDotGit)

\* Form (b) of the claim, said without the automaton: exactly one '/', with
\* a non-empty run of [A-Za-z0-9_-] on each side.
C1_IsShorthandForm(s) ==
    \E k \in 2..(Len(s) - 1) :
        /\ s[k] = "/"
        /\ \A i \in 1..Len(s) : i # k => s[i] \in Lower \cup Upper \cup Digit \cup {"_", "-"}

C2_ResolvedUrlIsGithubHttps ==
    rOut # NotRun /\ rOut.ok =>
        \/ C1_IsShorthandForm(rIn) /\ rOut.url = Expanded(rIn)
        \/ /\ UrlParse(rOut.url).ok
           /\ UrlParse(rOut.url).scheme = sHttps
           /\ UrlParse(rOut.url).host = sGithubCom
           /\ EndsWith(UrlParse(rOut.url).path, sDotGit)

-----------------------------------------------------------------------------
(* Claims about the first steps of install_version_impl *)

\* An identifier of neither form.
C19_Invalid(s) == ~C1_IsUrlForm(s) /\ ~C1_IsShorthandForm(s)

\* A step of attempt a that touches nothing outside the attempt: no request
\* for the version list, no change under the scratch root, no call logged,
\* nothing written to the destination.
C19_NoEffect(a) ==
    /\ cache' = cache /\ fetches' = fetches /\ listCalls' = listCalls
    /\ ws' = ws /\ spmRoot' = spmRoot
    /\ trace'[a] = <<>> /\ dest'[a] = {}

\* C19, as claimed: an attempt with an invalid identifier ends with the
\* invalid-repository error, and none of its steps has an effect outside.
C19_InvalidIdentifierFailsFirst ==
    [][\A a \in Attempts :
          C19_Invalid(name[a]) /\ pc'[a] # pc[a] =>
              /\ C19_NoEffect(a)
              /\ pc'[a] \in {"from_str", "failed"}
              /\ pc'[a] = "failed" => err'[a] = "Invalid swift package repo"]_vars

\* C19, amended: with the experimental setting enabled the attempt ends with
\* the invalid-repository error, with the setting disabled it ends at that
\* check; in both cases none of its steps has an effect outside.
C19_InvalidIdentifierFailsBeforeEffects ==
    [][\A a \in Attempts :
          C19_Invalid(name[a]) /\ pc'[a] # pc[a] =>
              /\ C19_NoEffect(a)
              /\ pc'[a] \in {"from_str", "failed"}
              /\ pc'[a] = "failed" =>
                    err'[a] = IF experimental
                              THEN "Invalid swift package repo"
                              ELSE "experimental features are not enabled"
              /\ pc[a] = "from_str" => pc'[a] = "failed"]_vars

\* An install of "latest" with an invalid identifier has failed, and the
\* release listing of that identifier was never asked for.
C19_Witness ==
    \E a \in Attempts :
        /\ name[a] = nInvalid /\ requested[a] = sLatest
        /\ experimental
        /\ pc[a] = "failed" /\ err[a] = "Invalid swift package repo"
        /\ fetches[name[a]] = 0 /\ listCalls[name[a]] = 0

\* C20: the first step of an attempt is the check of the experimental
\* setting; with the setting disabled every attempt ends there with the
\* error of the check: no identifier is resolved, no version list requested,
\* nothing removed, created or cloned under the scratch root, nothing built
\* and nothing copied.
C20_ExperimentalCheckedFirst ==
    /\ \A a \in Attempts :
          pc[a] # "idle" /\ err[a] # "experimental features are not enabled"
              => experimental
    /\ ~experimental =>
          /\ \A a \in Attempts :
                /\ pc[a] \in {"idle", "failed"}
                /\ pc[a] = "failed" => err[a] = "experimental features are not enabled"
                /\ repo_url[a] = None /\ version[a] = None /\ repo_dir[a] = None
                /\ trace[a] = <<>> /\ executables[a] = <<>> /\ dest[a] = {}
          /\ \A n \in PackageNames : listCalls[n] = 0 /\ fetches[n] = 0
          /\ \A d \in Dirs : ws[d] = {}
          /\ ~spmRoot

\* With the setting disabled, the install of a valid identifier has failed.
C20_Witness ==
    \E a \in Attempts :
        /\ ~experimental
        /\ name[a] = nShorthand
        /\ pc[a] = "failed" /\ err[a] = "experimental features are not enabled"

-----------------------------------------------------------------------------
(* SpecWorkspace: the workspace directory of clone_package_repo, for every *)
(* resolved URL and every version string of at most MaxVersionTokens       *)
(* tokens.                                                                 *)

VersionTokens == { <<"1">>, <<"x">>, <<"/">>, <<".", ".">> }

RECURSIVE VersionSeqs(_)
VersionSeqs(n) ==
    IF n = 0 THEN {<<>>}
    ELSE LET S == VersionSeqs(n - 1)
         IN  S \cup {Append(ts, t) : ts \in S, t \in VersionTokens}

\* ctx.tv.version: any string but the empty one.
VersionStrings == {Flatten(ts) : ts \in VersionSeqs(MaxVersionTokens)} \ {<<>>}

ResolvedUrls == {from_str(n).url : n \in {m \in PackageNames : from_str(m).ok}}

\* The names between the '/' of a path.
RECURSIVE Components(_)
Components(path) ==
    IF path = <<>> THEN <<>>
    ELSE LET k == FirstOf(path, {"/"})
         IN  (IF k = 1 THEN <<>> ELSE << SubSeq(path, 1, k - 1) >>)
             \o Components(Drop(path, k))

\* Where the file system finds a path of existing directories: "." stays,
\* ".." goes to the parent, and the parent of the root is the root.
RECURSIVE Walk(_, _)
Walk(at, comps) ==
    IF comps = <<>> THEN at
    ELSE IF Head(comps) = <<".">> THEN Walk(at, Tail(comps))
    ELSE IF Head(comps) = <<".", ".">>
    THEN Walk(IF at = <<>> THEN at ELSE SubSeq(at, 1, Len(at) - 1), Tail(comps))
    ELSE Walk(Append(at, Head(comps)), Tail(comps))

\* The directory an absolute path names, as the names from the root down.
Locate(path) == Walk(<<>>, Components(path))

InitWorkspace ==
    /\ rIn \in [url : ResolvedUrls, revision : VersionStrings]
    /\ rOut = NotRun
    /\ experimental = TRUE
    /\ serial = TRUE
    /\ name = [a \in Attempts |-> nInvalid]
    /\ requested = [a \in Attempts |-> sLatest]
    /\ IdleAttempts
    /\ EmptyOutside

\* clone_package_repo, lines 101-114: the path computed, and the directory
\* file::remove_all and git.clone are handed.
ClonePackageRepo ==
    /\ rOut = NotRun
    /\ LET d == TmpRepoDir(rIn.url, rIn.revision)
       IN  rOut' = [tmp_repo_dir |-> d, at |-> Locate(d)]
    /\ UNCHANGED <<rIn, inputVars, attemptVars, ws, spmRoot, cacheVars>>

NextWorkspace == ClonePackageRepo

SpecWorkspace == InitWorkspace /\ [][NextWorkspace]_vars

\* The characters clone_package_repo takes out of the URL.
C15_Sanitized(s) == \A i \in 1..Len(s) : s[i] \notin {"/", "?", "&", ":"}

\* C15: the workspace path is <temp dir>/spm/<sanitized url>@<version>, the
\* version as given, and the directory it names, which the removal and the
\* clone act on, is below <temp dir>/spm.
C15_WorkspaceUnderScratchRoot ==
    rOut # NotRun =>
        LET root == Join(sTempDir, sSpm)
            tail == <<"@">> \o rIn.revision
            d == rOut.tmp_repo_dir
        IN  /\ StartsWith(d, root \o <<"/">>)
            /\ EndsWith(d, tail)
            /\ Len(d) > Len(root) + 1 + Len(tail)
            /\ C15_Sanitized(SubSeq(d, Len(root) + 2, Len(d) - Len(tail)))
            /\ Len(rOut.at) > Len(Locate(root))
            /\ SubSeq(rOut.at, 1, Len(Locate(root))) = Locate(root)

=============================================================================
